---- MODULE Spec2Model ----
(***************************************************************************)
(* A model of the copy-trading programs of this repository:                *)
(*                                                                         *)
(*   select             DerivMT5CopyTradingBot.select_mt5_account          *)
(*                      (copy_trading_bot.py), a pure function             *)
(*   Deriv_Copy_Trader  DerivCopyTrader (Deriv_Copy_Trader.py), the        *)
(*                      multi-destination engine                           *)
(*   trade_bot          replicate_trades (trade_bot.py), the contract      *)
(*                      mapper of one source and one destination           *)
(*   copy_trading_bot   DerivMT5CopyTradingBot (copy_trading_bot.py), the  *)
(*                      threads that keep two websocket sessions alive     *)
(*                                                                         *)
(* The variable program says which of them a behaviour runs; each has a    *)
(* specification of its own.                                               *)
(***************************************************************************)
EXTENDS Integers, Sequences, FiniteSets, TLC

VARIABLES
    program,            \* which program of the repository is running
    \* ---- select_mt5_account
    accounts,           \* the mt5_login_list answer: a sequence of accounts
    target,             \* target_account_number (None when not configured)
    selected,           \* what select_mt5_account returned
    resolved,           \* whether select_mt5_account has returned
    \* ---- DerivCopyTrader
    source_account_number,  \* source_config.get('account_number')
    venue_balance,      \* what get_account_balance answers, per client
    active_trades,      \* copied trade id -> [source_trade_id, destination_token]
    next_copy_id,       \* the id the venue gives the next copied trade
    copier_event,       \* the event the last handler was given
    copier_calls,       \* the destination calls the last handler made, in order
    copier_logs,        \* the log records the last handler wrote
    copier_steps,       \* the number of handlers run
    \* ---- trade_bot
    contract_mapping,   \* contract id of user A -> contract id of user B
    b_contracts,        \* user B's contracts at the venue: id -> [source, open]
    next_contract_id,   \* the id the venue gives user B's next contract
    mapper_event,       \* the transaction the last handler was given
    mapper_calls,       \* the calls the last handler made on api_user_b
    mapper_logs,        \* the log records the last handler wrote
    mapper_steps,       \* the number of transactions handled
    received,           \* per contract of user A, the transactions received
    b_ops,              \* per contract of user A, the commands sent to user B
    \* ---- DerivMT5CopyTradingBot
    should_run,         \* self.should_run.is_set()
    current_ws,         \* self.source_ws, self.destination_ws (0: None)
    sockets,            \* every WebSocketApp made, each with the thread that
                        \* runs _run_websocket on it: [role, pc, retries,
                        \* delay, raised], delay being the seconds it last
                        \* slept and raised the exceptions run_forever has
                        \* raised since the socket's last session began, the
                        \* one that ended that session being the first
    spawned,            \* per role, the threads the close callback has started
                        \* that have not yet run start_*_connection
    watchdog,           \* the check_connections thread
    pinger,             \* per role, where its keep_alive_ping thread is
    fatal,              \* stop() was called by a receive loop out of retries
    sent_after_stop,    \* the roles on whose sessions a message was sent
                        \* after stop() returned
    answers,            \* per role, the reconnects that have opened a session
                        \* since the role last had a connect or session fail
    failures,           \* the connects and sessions the network made fail
    \* ---- DerivMT5CopyTradingBot, the messages of its sessions
    mt5_account_number, \* self.source_account_number and
                        \* self.destination_account_number, per role
    venue_accounts,     \* per role, the mt5_login_list the venue answers
    phase,              \* per socket, how far the session's handshake is
    pending,            \* per socket, the orders sent on it and not yet answered
    session_event,      \* the message the last handler was given
    session_sent,       \* the messages the last handler sent, in order
    session_errors,     \* the error records the last handler logged
    stream_pos,         \* per socket, how many events of the source's
                        \* transaction stream the session has been given
    applied,            \* the highest position in that stream of an event
                        \* replicated to the destination
    \* ---- DerivMT5CopyTradingBot, one message and the branch that takes it
    message,            \* the parsed message and the role of its session
    branch,             \* the branch of the handler's chain that took it
    handler_sent,       \* the kinds of request the handler then sent
    handler_writes      \* the attributes the handler then assigned

resolverVars == <<accounts, target, selected, resolved>>

copierVars == <<source_account_number, venue_balance, active_trades, next_copy_id,
                copier_event, copier_calls, copier_logs, copier_steps>>

mapperVars == <<contract_mapping, b_contracts, next_contract_id, mapper_event,
                mapper_calls, mapper_logs, mapper_steps, received, b_ops>>

botVars == <<should_run, current_ws, sockets, spawned, watchdog, pinger, fatal,
             sent_after_stop, answers, failures>>

sessionVars == <<mt5_account_number, venue_accounts, phase, pending,
                 session_event, session_sent, session_errors, stream_pos, applied>>

classifierVars == <<message, branch, handler_sent, handler_writes>>

vars == <<program, resolverVars, copierVars, mapperVars, botVars, sessionVars,
          classifierVars>>

\* Python's None, and the empty string: both are falsy where the code tests them.
None == <<>>

(***************************************************************************)
(* select_mt5_account                                                      *)
(***************************************************************************)

\* The longest account list the resolver is given.
MaxAccounts == 2

Logins == { <<"M","T","R","9","0","0">>, <<"M","T","D","1","0","0">>, <<"9","0","0">> }

Targets == { None, <<"9","0","0">>, <<"0","0">>, <<"M","T","D","1","0","0">>, <<"5","5">> }

\* account["rights"]: a dict that may lack either key.
RightsKeys == {"enabled", "trade_disabled"}

Rights == UNION { [K -> BOOLEAN] : K \in SUBSET RightsKeys }

Account == [login : Logins, rights : Rights]

AccountLists == UNION { [1..n -> Account] : n \in 0..MaxAccounts }

Range(seq) == { seq[i] : i \in DOMAIN seq }

\* dict.get(key, default)
Get(d, key, default) == IF key \in DOMAIN d THEN d[key] ELSE default

\* str.endswith
EndsWith(s, suffix) ==
    /\ Len(suffix) <= Len(s)
    /\ SubSeq(s, Len(s) - Len(suffix) + 1, Len(s)) = suffix

\* The condition of lines 216-219.
LoginMatches(account_login, target_number) ==
    \/ account_login = target_number
    \/ account_login = <<"M","T","D">> \o target_number
    \/ account_login = <<"M","T","R">> \o target_number
    \/ EndsWith(account_login, target_number)

\* A slip in line 233: the trade_disabled right is not consulted.
EnabledOnly(account) == Get(account.rights, "enabled", FALSE)

\* The condition of line 233.
EnabledAndTradable(account) ==
    /\ Get(account.rights, "enabled", FALSE)
    /\ ~Get(account.rights, "trade_disabled", TRUE)

\* A slip in lines 212-223: the loop does not return at the first match and
\* keeps the last one.
RECURSIVE LastMatch(_, _, _)
LastMatch(accs, target_number, i) ==
    IF i > Len(accs) THEN None
    ELSE LET rest == LastMatch(accs, target_number, i + 1)
         IN  IF rest # None THEN rest
             ELSE IF LoginMatches(accs[i].login, target_number) THEN accs[i].login
             ELSE None

\* The loop of lines 212-223, from index i on.
RECURSIVE FirstMatch(_, _, _)
FirstMatch(accs, target_number, i) ==
    IF i > Len(accs) THEN None
    ELSE IF LoginMatches(accs[i].login, target_number) THEN accs[i].login
    ELSE FirstMatch(accs, target_number, i + 1)

\* The loop of lines 230-238, from index i on.
RECURSIVE FirstEnabled(_, _)
FirstEnabled(accs, i) ==
    IF i > Len(accs) THEN None
    ELSE IF EnabledAndTradable(accs[i]) THEN accs[i].login
    ELSE FirstEnabled(accs, i + 1)

select_mt5_account(accs, target_account_number) ==
    IF accs = <<>> THEN None
    ELSE IF target_account_number # None
         THEN FirstMatch(accs, target_account_number, 1)
         ELSE FirstEnabled(accs, 1)

\* The resolver's variables in the other programs, which do not use them.
ResolverIdle ==
    /\ accounts = <<>>
    /\ target = None
    /\ selected = None
    /\ resolved = FALSE

\* The state of a DerivCopyTrader after __init__ (lines 14-19).
CopierConstructed ==
    /\ active_trades = <<>>
    /\ next_copy_id = 1
    /\ copier_event = [kind |-> "none"]
    /\ copier_calls = <<>>
    /\ copier_logs = 0
    /\ copier_steps = 0

CopierIdle ==
    /\ source_account_number = None
    /\ venue_balance = <<>>
    /\ CopierConstructed

SourceContracts == {"A1", "A2"}

\* The state of trade_bot when replicate_trades starts to listen (lines 18-38).
MapperConstructed ==
    /\ contract_mapping = <<>>
    /\ b_contracts = <<>>
    /\ next_contract_id = 1
    /\ mapper_event = [action |-> "none", contract_id |-> "none", amount |-> 0]
    /\ mapper_calls = <<>>
    /\ mapper_logs = 0
    /\ mapper_steps = 0
    /\ received = [s \in SourceContracts |-> <<>>]
    /\ b_ops = [s \in SourceContracts |-> <<>>]

Roles == {"source", "destination"}

\* The state of a DerivMT5CopyTradingBot after __init__ (lines 17-29).
BotConstructed ==
    /\ should_run = TRUE
    /\ current_ws = [r \in Roles |-> 0]
    /\ sockets = <<>>
    /\ spawned = [r \in Roles |-> 0]
    /\ watchdog = [pc |-> "off", source_connected |-> FALSE, dest_connected |-> FALSE]
    /\ pinger = [r \in Roles |-> "off"]
    /\ fatal = FALSE
    /\ sent_after_stop = {}
    /\ answers = [r \in Roles |-> 0]
    /\ failures = 0

\* The session variables before any session is open.
\* The keys the message handlers look for.
Fields ==
    {"authorize", "mt5_login_list", "transaction", "mt5_get_positions",
     "mt5_get_orders", "mt5_new_order"}

\* No message has been classified.
ClassifierIdle ==
    /\ message = [role |-> "source", data |-> [f \in Fields |-> "absent"]]
    /\ branch = "unclassified"
    /\ handler_sent = <<>>
    /\ handler_writes = {}

SessionIdle ==
    /\ mt5_account_number = [r \in Roles |-> None]
    /\ venue_accounts = [r \in Roles |-> <<>>]
    /\ phase = <<>>
    /\ pending = <<>>
    /\ session_event = [on |-> 0, kind |-> "none", detail |-> "none",
                        action |-> "none", complete |-> TRUE]
    /\ session_sent = <<>>
    /\ session_errors = 0
    /\ stream_pos = <<>>
    /\ applied = 0

InitResolver ==
    /\ program = "select"
    /\ accounts \in AccountLists
    /\ target \in Targets
    /\ selected = None
    /\ resolved = FALSE
    /\ CopierIdle
    /\ MapperConstructed
    /\ BotConstructed
    /\ SessionIdle
    /\ ClassifierIdle

Resolve ==
    /\ program = "select"
    /\ ~resolved
    /\ selected' = select_mt5_account(accounts, target)
    /\ resolved' = TRUE
    /\ UNCHANGED <<program, accounts, target, copierVars, mapperVars, botVars,
                   sessionVars, classifierVars>>

NextResolver == Resolve

SpecResolver == InitResolver /\ [][NextResolver]_vars

(***************************************************************************)
(* Claims about select_mt5_account                                         *)
(***************************************************************************)

ExampleAccounts ==
    << [login |-> <<"M","T","R","9","0","0">>,
        rights |-> [enabled |-> TRUE, trade_disabled |-> FALSE]],
       [login |-> <<"M","T","D","1","0","0">>,
        rights |-> [enabled |-> TRUE, trade_disabled |-> TRUE]] >>

\* The positions whose id equals the target, is the target behind a venue
\* prefix, or ends with the target.
TargetPositions ==
    { i \in 1..Len(accounts) :
        \/ accounts[i].login = target
        \/ \E prefix \in { <<"M","T","D">>, <<"M","T","R">> } :
               accounts[i].login = prefix \o target
        \/ \E k \in 0..Len(accounts[i].login) :
               accounts[i].login = SubSeq(accounts[i].login, 1, k) \o target }

\* C9: with a target, the resolver returns the account at the least position
\* whose id equals the target, equals MTD/MTR + target, or ends with the
\* target; for [MTR900, MTD100 (not tradable)] and target 900 it returns MTR900.
C9_TargetFirstMatch ==
    (resolved /\ target # None) =>
        /\ TargetPositions # {} =>
              \E i \in TargetPositions :
                  /\ \A j \in TargetPositions : i <= j
                  /\ selected = accounts[i].login
        /\ (accounts = ExampleAccounts /\ target = <<"9","0","0">>) =>
              selected = <<"M","T","R","9","0","0">>

\* Two accounts match the target 00 by their ending, and the first is returned.
C9_Witness ==
    /\ resolved
    /\ target = <<"0","0">>
    /\ Len(accounts) = 2
    /\ accounts[1].login = <<"M","T","D","1","0","0">>
    /\ accounts[2].login = <<"M","T","R","9","0","0">>
    /\ selected = <<"M","T","D","1","0","0">>

\* The positions of the accounts that are enabled and allowed to trade.
TradablePositions ==
    { i \in 1..Len(accounts) :
        /\ "enabled" \in DOMAIN accounts[i].rights
        /\ accounts[i].rights["enabled"] = TRUE
        /\ "trade_disabled" \in DOMAIN accounts[i].rights
        /\ accounts[i].rights["trade_disabled"] = FALSE }

\* C10: without a target, the resolver returns the account at the least
\* position that is enabled and allowed to trade, and not-found when the list
\* is empty or holds no such account.
C10_NoTargetFirstTradable ==
    (resolved /\ target = None) =>
        IF TradablePositions = {} THEN selected = None
        ELSE \E i \in TradablePositions :
                 /\ \A j \in TradablePositions : i <= j
                 /\ selected = accounts[i].login

\* The first account is enabled but trade-disabled and is skipped.
C10_Witness ==
    /\ resolved
    /\ target = None
    /\ Len(accounts) = 2
    /\ accounts[1] = ExampleAccounts[2]
    /\ accounts[2] = ExampleAccounts[1]
    /\ selected = <<"M","T","R","9","0","0">>

\* C11: with a target that no account matches, the resolver returns what the
\* scan without a target returns: the account at the least position that is
\* enabled and allowed to trade, and not-found only when there is none.
C11_NoMatchFallsBack ==
    (resolved /\ target # None /\ TargetPositions = {}) =>
        IF TradablePositions = {} THEN selected = None
        ELSE \E i \in TradablePositions :
                 /\ \A j \in TradablePositions : i <= j
                 /\ selected = accounts[i].login

(***************************************************************************)
(* DerivCopyTrader (Deriv_Copy_Trader.py)                                  *)
(*                                                                         *)
(* A lot size or a balance ratio is a fraction <<numerator, denominator>>  *)
(* in lowest terms.  The balances and lot sizes drawn below have quotients *)
(* and products (0, 1/4, 1/2, 1, 2) that binary floating point holds       *)
(* exactly, so the fractions are the values Python computes.               *)
(***************************************************************************)

\* The number of handlers (copy_trade, update_trade_parameters) a behaviour runs.
MaxCopierSteps == 2

\* destination_configs, in order (lines 123-126), each named by its token.
DestTokens == <<"DESTINATION_TOKEN1", "DESTINATION_TOKEN2">>

SourceTradeIds == {"S1", "S2"}

AccountNumbers == { <<"C","R","1">>, <<"C","R","2">> }

LotSizes == { <<1, 1>>, <<1, 2>> }

Balances == {0, 500, 1000}

\* get_account_balance raised instead of returning a balance.
Unavailable == -1

BalanceResults == Balances \cup {Unavailable}

\* The stop-loss/take-profit levels an event carries.
Levels == {10, 20}

RECURSIVE GCD(_, _)
GCD(a, b) == IF b = 0 THEN a ELSE GCD(b, a % b)

\* The fraction n/d (n >= 0, d > 0) in lowest terms.
Fraction(n, d) == LET g == GCD(n, d) IN <<n \div g, d \div g>>

Times(x, y) == Fraction(x[1] * y[1], x[2] * y[2])

\* A slip in line 86: the ratio is taken the wrong way round.
calculate_scaled_lot_size_inverted(lot_size, source_balance, dest_balance) ==
    IF source_balance = Unavailable \/ dest_balance = Unavailable THEN lot_size
    ELSE IF dest_balance = 0 THEN lot_size
    ELSE Times(lot_size, Fraction(source_balance, dest_balance))

\* Lines 83-90: any exception (a balance that cannot be fetched, a division by
\* zero) is caught and the source lot size returned.
calculate_scaled_lot_size(lot_size, source_balance, dest_balance) ==
    IF source_balance = Unavailable \/ dest_balance = Unavailable THEN lot_size
    ELSE IF source_balance = 0 THEN lot_size
    ELSE Times(lot_size, Fraction(dest_balance, source_balance))

\* A slip in line 45: the trade's account is compared without asking whether
\* an account number is configured.
SkipsTradeUnconfigured(account_number, trade_details) ==
    trade_details.account_number # account_number

\* Line 45: whether copy_trade returns without copying.
SkipsTrade(account_number, trade_details) ==
    account_number # None /\ trade_details.account_number # account_number

TradeDetails ==
    [id : SourceTradeIds, account_number : AccountNumbers, lot_size : LotSizes,
     levels : {10}]

\* The create_trade call of lines 64-72 for the destination at position i;
\* created: whether the venue answers it with a trade (and not an exception).
CreateCall(i, trade_details, created, copied_id) ==
    [op |-> "create_trade",
     token |-> DestTokens[i],
     trade_id |-> IF created THEN copied_id ELSE 0,
     lot_size |-> calculate_scaled_lot_size(trade_details.lot_size,
                      venue_balance["source"], venue_balance[DestTokens[i]]),
     levels |-> trade_details.levels,
     ok |-> created]

\* Whether calculate_scaled_lot_size logs an error for the destination at i.
ScalingFails(i) ==
    \/ venue_balance["source"] = Unavailable
    \/ venue_balance[DestTokens[i]] = Unavailable
    \/ venue_balance["source"] = 0

\* The loop of lines 48-55 from destination i on, with _execute_trade_copy
\* (lines 63-79) for each: st holds active_trades, next_copy_id, the calls made
\* and the log records written so far.  An exception of create_trade is caught
\* in _execute_trade_copy, which records no trade for that destination.
RECURSIVE CopyToDestinations(_, _, _, _)
CopyToDestinations(i, trade_details, created, st) ==
    IF i > Len(DestTokens) THEN st
    ELSE LET ok == DestTokens[i] \in created
             call == CreateCall(i, trade_details, ok, st.next_id)
             entry == [source_trade_id |-> trade_details.id,
                       destination_token |-> DestTokens[i]]
             after ==
                 [active |-> IF ok THEN (st.next_id :> entry) @@ st.active
                             ELSE st.active,
                  next_id |-> IF ok THEN st.next_id + 1 ELSE st.next_id,
                  calls |-> Append(st.calls, call),
                  logs |-> st.logs + (IF ScalingFails(i) THEN 1 ELSE 0) + 1]
         IN  CopyToDestinations(i + 1, trade_details, created, after)

\* copy_trade (lines 40-55); created: the destinations whose venue answers
\* create_trade with a trade.
copy_trade ==
    /\ program = "Deriv_Copy_Trader"
    /\ copier_steps < MaxCopierSteps
    /\ \E trade_details \in TradeDetails, created \in SUBSET Range(DestTokens) :
        /\ LET st0 == [active |-> active_trades, next_id |-> next_copy_id,
                       calls |-> <<>>, logs |-> 0]
               st == IF SkipsTrade(source_account_number, trade_details) THEN st0
                     ELSE CopyToDestinations(1, trade_details, created, st0)
           IN  /\ active_trades' = st.active
               /\ next_copy_id' = st.next_id
               /\ copier_calls' = st.calls
               /\ copier_logs' = st.logs
        /\ copier_event' = [kind |-> "open", trade |-> trade_details]
    /\ copier_steps' = copier_steps + 1
    /\ UNCHANGED <<program, resolverVars, mapperVars, botVars, sessionVars, classifierVars,
                   source_account_number, venue_balance>>

\* The copied trades of source trade id, in the order active_trades holds them
\* (the order they were recorded in, which is the order of their ids).
RECURSIVE CopiesOf(_, _, _)
CopiesOf(active, id, k) ==
    IF k > Cardinality(DOMAIN active) THEN <<>>
    ELSE LET rest == CopiesOf(active, id, k + 1)
             key == CHOOSE t \in DOMAIN active :
                        Cardinality({u \in DOMAIN active : u < t}) = k - 1
         IN  IF active[key].source_trade_id = id THEN <<key>> \o rest ELSE rest

\* The loop of lines 98-103 over the copies from position k on: an exception
\* of update_trade leaves the loop (line 104) and is logged once.
RECURSIVE UpdateCopies(_, _, _, _, _)
UpdateCopies(copies, k, trade_update, failing, st) ==
    IF k > Len(copies) THEN st
    ELSE LET ok == copies[k] \notin failing
             call == [op |-> "update_trade",
                      token |-> active_trades[copies[k]].destination_token,
                      trade_id |-> copies[k],
                      lot_size |-> <<0, 1>>,
                      levels |-> trade_update.levels,
                      ok |-> ok]
             after == [calls |-> Append(st.calls, call), logs |-> st.logs + 1]
         IN  IF ok THEN UpdateCopies(copies, k + 1, trade_update, failing, after)
             ELSE after

TradeUpdates == [id : SourceTradeIds, levels : Levels]

\* update_trade_parameters (lines 92-105); failing: the copied trades whose
\* update_trade the venue answers with an exception.
update_trade_parameters ==
    /\ program = "Deriv_Copy_Trader"
    /\ copier_steps < MaxCopierSteps
    /\ \E trade_update \in TradeUpdates, failing \in SUBSET (DOMAIN active_trades) :
        /\ LET st == UpdateCopies(CopiesOf(active_trades, trade_update.id, 1), 1,
                                  trade_update, failing, [calls |-> <<>>, logs |-> 0])
           IN  /\ copier_calls' = st.calls
               /\ copier_logs' = st.logs
        /\ copier_event' = [kind |-> "update", trade |-> trade_update]
    /\ copier_steps' = copier_steps + 1
    /\ UNCHANGED <<program, resolverVars, mapperVars, botVars, sessionVars, classifierVars,
                   source_account_number, venue_balance, active_trades,
                   next_copy_id>>

\* The state after __init__ and connect (lines 14-35), with the venue's balances.
InitCopier ==
    /\ program = "Deriv_Copy_Trader"
    /\ ResolverIdle
    /\ source_account_number \in {None} \cup AccountNumbers
    /\ venue_balance \in [{"source"} \cup Range(DestTokens) -> BalanceResults]
    /\ CopierConstructed
    /\ MapperConstructed
    /\ BotConstructed
    /\ SessionIdle
    /\ ClassifierIdle

NextCopier ==
    \/ copy_trade
    \/ update_trade_parameters

SpecCopier == InitCopier /\ [][NextCopier]_vars

(***************************************************************************)
(* Claims about DerivCopyTrader                                            *)
(***************************************************************************)

\* The last handler was copy_trade and the trade passed the account filter.
CopiedLast ==
    /\ copier_event.kind = "open"
    /\ \/ source_account_number = None
       \/ copier_event.trade.account_number = source_account_number

\* The volume the claim gives for destination i: the source volume times
\* destination balance over source balance, stated as v * source = volume * dest.
VolumeAsClaimed(i, v) ==
    LET lot == copier_event.trade.lot_size
        sb == venue_balance["source"]
        db == venue_balance[DestTokens[i]]
    IN  IF sb \in Balances /\ db \in Balances /\ sb # 0
        THEN v[1] * sb * lot[2] = lot[1] * db * v[2]
        ELSE v = lot

\* C8: every destination is sent one open command, whatever the balances; its
\* volume is sourceVolume x destinationBalance / sourceBalance when both balances
\* are there and the division succeeds (1.0, 1000, 500 give 0.5), and the source
\* volume otherwise.
C8_ScaledVolume ==
    CopiedLast =>
        /\ Len(copier_calls) = Len(DestTokens)
        /\ \A i \in DOMAIN DestTokens :
            /\ copier_calls[i].op = "create_trade"
            /\ copier_calls[i].token = DestTokens[i]
            /\ VolumeAsClaimed(i, copier_calls[i].lot_size)
            /\ ( /\ copier_event.trade.lot_size = <<1, 1>>
                 /\ venue_balance["source"] = 1000
                 /\ venue_balance[DestTokens[i]] = 500 )
               => copier_calls[i].lot_size = <<1, 2>>

\* The example of the claim on the first destination, and the second
\* destination's balance missing: 0.5 there, 1.0 here.
C8_Witness ==
    /\ CopiedLast
    /\ copier_event.trade.lot_size = <<1, 1>>
    /\ venue_balance["source"] = 1000
    /\ venue_balance[DestTokens[1]] = 500
    /\ venue_balance[DestTokens[2]] = Unavailable
    /\ Len(copier_calls) = 2
    /\ copier_calls[1].lot_size = <<1, 2>>
    /\ copier_calls[2].lot_size = <<1, 1>>

\* C18: a call that fails on one destination does not keep the handler from
\* serving the others: copy_trade calls create_trade on every destination, and
\* update_trade_parameters calls update_trade on every recorded copy of the
\* trade, whichever of the calls fail.
C18_FailureStaysWithItsTrade ==
    [][ /\ ( /\ copier_steps' = copier_steps + 1
             /\ copier_event'.kind = "open"
             /\ ~SkipsTrade(source_account_number, copier_event'.trade) )
           => /\ Len(copier_calls') = Len(DestTokens)
              /\ \A i \in DOMAIN DestTokens : copier_calls'[i].token = DestTokens[i]
        /\ ( /\ copier_steps' = copier_steps + 1
             /\ copier_event'.kind = "update" )
           => \A t \in { u \in DOMAIN active_trades :
                           active_trades[u].source_trade_id = copier_event'.trade.id } :
                  \E k \in DOMAIN copier_calls' : copier_calls'[k].trade_id = t ]_vars
\* The copied trades an update step called update_trade for.
UpdatedCopies(calls) == { calls[k].trade_id : k \in DOMAIN calls }

\* C30: an update of a source trade calls update_trade once for each copied
\* trade recorded for it and for no other trade; a create_trade that failed
\* recorded no copy.
C30_UpdateReachesExactlyTheCopies ==
    [][ /\ ( /\ copier_steps' = copier_steps + 1
             /\ copier_event'.kind = "update" )
           => /\ UpdatedCopies(copier_calls')
                     = { t \in DOMAIN active_trades :
                           active_trades[t].source_trade_id = copier_event'.trade.id }
              /\ Len(copier_calls') = Cardinality(UpdatedCopies(copier_calls'))
        /\ ( /\ copier_steps' = copier_steps + 1
             /\ copier_event'.kind = "open" )
           => Cardinality(DOMAIN active_trades') - Cardinality(DOMAIN active_trades)
                  = Cardinality({k \in DOMAIN copier_calls' : copier_calls'[k].ok}) ]_vars

\* C31: with a source account number configured, a trade of another account
\* causes no destination command and leaves active_trades as it was; a trade
\* of the configured account, and any trade when none is configured, is
\* attempted once on every destination, in the order configured.
C31_OnlyTheSourceAccountIsCopied ==
    [][ ( /\ copier_steps' = copier_steps + 1
          /\ copier_event'.kind = "open" )
          => IF /\ source_account_number # None
                /\ copier_event'.trade.account_number # source_account_number
             THEN /\ copier_calls' = <<>>
                  /\ active_trades' = active_trades
                  /\ next_copy_id' = next_copy_id
             ELSE /\ [i \in DOMAIN copier_calls' |-> copier_calls'[i].token] = DestTokens
                  /\ \A i \in DOMAIN copier_calls' :
                         copier_calls'[i].op = "create_trade" ]_vars

\* A trade of another account arrived after a trade had been copied: nothing
\* was sent for it and the copies recorded are still there.
C31_Witness ==
    /\ copier_event.kind = "open"
    /\ source_account_number # None
    /\ copier_event.trade.account_number # source_account_number
    /\ copier_calls = <<>>
    /\ DOMAIN active_trades # {}
    /\ copier_steps = 2

(***************************************************************************)
(* trade_bot (trade_bot.py): one task reads user A's transaction stream    *)
(* and awaits each handler before it reads the next transaction.           *)
(***************************************************************************)

\* The number of transactions a behaviour handles.
MaxMapperSteps == 4

\* What an awaited API call does: it returns a response without 'error',
\* returns an error response, or raises.
Replies == {"ok", "error", "raise"}

\* transaction['amount'] of a sell transaction.
Prices == {7, 9}

\* Line 112.
IsMapped(contract_id_a) == contract_id_a \in DOMAIN contract_mapping

\* A slip in lines 96 and 125: the response is not looked at.
NeverHasError(reply) == FALSE

\* 'error' in response (lines 96, 125).
HasError(reply) == reply = "error"

\* A slip in line 122: the price of the source's sale is not passed on.
SellCallUnpriced(contract_id_b, sell_price) ==
    [op |-> "sell_contract", contract_id |-> contract_id_b, price |-> 0]

\* The request of lines 119-123.
SellCall(contract_id_b, sell_price) ==
    [op |-> "sell_contract", contract_id |-> contract_id_b, price |-> sell_price]

\* What every handler records of the transaction it was given.
Handled(action, contract_id_a, amount, levels, accepted) ==
    /\ mapper_event' = [action |-> action, contract_id |-> contract_id_a,
                        amount |-> amount]
    /\ received' = [received EXCEPT ![contract_id_a] =
                       Append(@, [action |-> action, levels |-> levels,
                                  accepted |-> accepted])]
    /\ mapper_steps' = mapper_steps + 1

\* process_buy_transaction (lines 56-104).  source_reply: the answer to
\* proposal_open_contract (an error, or a contract without a field that lines
\* 75-86 read, ends the handler before user B is called); b_reply: user B's
\* answer to buy_contract.  The mapping is not consulted before the call.
process_buy_transaction(contract_id_a, source_reply, b_reply) ==
    LET called == source_reply = "ok"
        bought == called /\ b_reply = "ok"
        mapped == called /\ b_reply # "raise" /\ ~HasError(b_reply)
        contract_id_b == next_contract_id
    IN  /\ mapper_calls' =
              IF called
              THEN << [op |-> "buy_contract",
                       contract_id |-> IF bought THEN contract_id_b ELSE 0] >>
              ELSE <<>>
        /\ b_ops' = IF called
                    THEN [b_ops EXCEPT ![contract_id_a] = Append(@, "buy_contract")]
                    ELSE b_ops
        /\ contract_mapping' =
              IF mapped THEN (contract_id_a :> contract_id_b) @@ contract_mapping
              ELSE contract_mapping
        /\ b_contracts' =
              IF bought
              THEN (contract_id_b :> [source |-> contract_id_a, open |-> TRUE])
                   @@ b_contracts
              ELSE b_contracts
        /\ next_contract_id' = IF bought \/ mapped THEN next_contract_id + 1
                               ELSE next_contract_id
        /\ mapper_logs' = 2
        /\ Handled("buy", contract_id_a, 0, 0, bought)

\* process_sell_transaction (lines 106-133); sell_price: the transaction's
\* amount; b_reply: user B's answer to sell_contract, which is an error when
\* the contract is not open.
process_sell_transaction(contract_id_a, sell_price, b_reply) ==
    IF ~IsMapped(contract_id_a)
    THEN /\ mapper_calls' = <<>>
         /\ mapper_logs' = 1
         /\ UNCHANGED <<contract_mapping, b_contracts, next_contract_id, b_ops>>
         /\ Handled("sell", contract_id_a, sell_price, 0, FALSE)
    ELSE LET contract_id_b == contract_mapping[contract_id_a]
             held == contract_id_b \in DOMAIN b_contracts
                     /\ b_contracts[contract_id_b].open
             reply == IF b_reply = "ok" /\ ~held THEN "error" ELSE b_reply
             sold == reply = "ok"
             deleted == reply # "raise" /\ ~HasError(reply)
         IN  /\ mapper_calls' = << SellCall(contract_id_b, sell_price) >>
             /\ b_ops' = [b_ops EXCEPT ![contract_id_a] = Append(@, "sell_contract")]
             /\ contract_mapping' =
                   IF deleted
                   THEN [s \in DOMAIN contract_mapping \ {contract_id_a} |->
                            contract_mapping[s]]
                   ELSE contract_mapping
             /\ b_contracts' =
                   IF sold THEN [b_contracts EXCEPT ![contract_id_b].open = FALSE]
                   ELSE b_contracts
             /\ mapper_logs' = 2
             /\ UNCHANGED next_contract_id
             /\ Handled("sell", contract_id_a, sell_price, 0, sold)

\* Lines 42-49 with a transaction whose action is neither buy nor sell, such as
\* a change of a contract's stop-loss/take-profit: no branch takes it.
ignore_transaction(contract_id_a, levels) ==
    /\ mapper_calls' = <<>>
    /\ mapper_logs' = 0
    /\ UNCHANGED <<contract_mapping, b_contracts, next_contract_id, b_ops>>
    /\ Handled("update", contract_id_a, 0, levels, TRUE)

\* One turn of the loop of replicate_trades (lines 40-49).
BuyTransaction ==
    /\ program = "trade_bot"
    /\ mapper_steps < MaxMapperSteps
    /\ \E contract_id_a \in SourceContracts, source_reply \in Replies,
          b_reply \in Replies :
           process_buy_transaction(contract_id_a, source_reply, b_reply)
    /\ UNCHANGED <<program, resolverVars, copierVars, botVars, sessionVars,
                   classifierVars>>

SellTransaction ==
    /\ program = "trade_bot"
    /\ mapper_steps < MaxMapperSteps
    /\ \E contract_id_a \in SourceContracts, sell_price \in Prices,
          b_reply \in Replies :
           process_sell_transaction(contract_id_a, sell_price, b_reply)
    /\ UNCHANGED <<program, resolverVars, copierVars, botVars, sessionVars,
                   classifierVars>>

OtherTransaction ==
    /\ program = "trade_bot"
    /\ mapper_steps < MaxMapperSteps
    /\ \E contract_id_a \in SourceContracts, levels \in Levels :
           ignore_transaction(contract_id_a, levels)
    /\ UNCHANGED <<program, resolverVars, copierVars, botVars, sessionVars,
                   classifierVars>>

InitMapper ==
    /\ program = "trade_bot"
    /\ ResolverIdle
    /\ CopierIdle
    /\ MapperConstructed
    /\ BotConstructed
    /\ SessionIdle
    /\ ClassifierIdle

NextMapper ==
    \/ BuyTransaction
    \/ SellTransaction
    \/ OtherTransaction

SpecMapper == InitMapper /\ [][NextMapper]_vars

\* trade_bot and DerivCopyTrader, the two programs that replicate trade events.
InitReplication == InitMapper \/ InitCopier

NextReplication == NextMapper \/ NextCopier

SpecReplication == InitReplication /\ [][NextReplication]_vars

(***************************************************************************)
(* Claims about the replication of trade events                            *)
(***************************************************************************)

\* C1: the mapping holds an entry for a contract of user A exactly when the
\* contract of user B that copies it is open: an entry names an open copy, and
\* every open copy is the one its source's entry names.
C1_MappingIffOpen ==
    \A s \in SourceContracts :
        /\ s \in DOMAIN contract_mapping =>
              /\ contract_mapping[s] \in DOMAIN b_contracts
              /\ b_contracts[contract_mapping[s]].source = s
              /\ b_contracts[contract_mapping[s]].open
        /\ \A d \in DOMAIN b_contracts :
              (b_contracts[d].source = s /\ b_contracts[d].open) =>
                  (s \in DOMAIN contract_mapping /\ contract_mapping[s] = d)

\* The number of positions of seq that hold x.
Count(seq, x) == Cardinality({ k \in DOMAIN seq : seq[k] = x })

\* The transactions received for a contract are an open, then updates, then a
\* close, and the venue accepted the open and the close.
OpenModifiesClose(h) ==
    /\ Len(h) >= 2
    /\ h[1].action = "buy" /\ h[1].accepted
    /\ h[Len(h)].action = "sell" /\ h[Len(h)].accepted
    /\ \A k \in 2..(Len(h) - 1) : h[k].action = "update"

\* The commands sent to the destination for a contract that neither open nor
\* close it.
ModifiesSent(s) ==
    Len(b_ops[s]) - Count(b_ops[s], "buy_contract") - Count(b_ops[s], "sell_contract")

\* C2: a trade whose events were Open, N x Modify, Close has been sent to the
\* destination as exactly one open, N modifies and one close (stated for the
\* favourable case in which the venue accepted the open and the close; the
\* levels of the last modify cannot differ where no modify is sent at all).
C2_OneOpenNModifiesOneClose ==
    \A s \in SourceContracts :
        OpenModifiesClose(received[s]) =>
            /\ Count(b_ops[s], "buy_contract") = 1
            /\ Count(b_ops[s], "sell_contract") = 1
            /\ ModifiesSent(s) = Len(received[s]) - 2

\* C3: a buy transaction for a contract that is already mapped makes no call on
\* the destination and leaves the mapping as it is.
C3_ReplayedOpenIsNoOp ==
    [][ ( /\ mapper_steps' = mapper_steps + 1
          /\ mapper_event'.action = "buy"
          /\ mapper_event'.contract_id \in DOMAIN contract_mapping )
        => ( mapper_calls' = <<>> /\ contract_mapping' = contract_mapping ) ]_vars

\* The copied trades recorded for source trade id.
RecordedCopies(id) ==
    { t \in DOMAIN active_trades : active_trades[t].source_trade_id = id }

\* C4: a Close (process_sell_transaction) or a Modify
\* (update_trade_parameters) for a source contract without a mapping entry
\* sends nothing to the destination, leaves the mapping table as it is and
\* writes exactly one log record.
C4_UnmappedIsLoggedNoOp ==
    [][ /\ ( /\ mapper_steps' = mapper_steps + 1
             /\ mapper_event'.action = "sell"
             /\ mapper_event'.contract_id \notin DOMAIN contract_mapping )
           => ( /\ mapper_calls' = <<>>
                /\ contract_mapping' = contract_mapping
                /\ mapper_logs' = 1 )
        /\ ( /\ copier_steps' = copier_steps + 1
             /\ copier_event'.kind = "update"
             /\ RecordedCopies(copier_event'.trade.id) = {} )
           => ( /\ copier_calls' = <<>>
                /\ active_trades' = active_trades
                /\ copier_logs' = 1 ) ]_vars

\* The last transaction received for contract s, after the step.
LastReceived(s) == received'[s][Len(received'[s])]

\* C16: a buy that user B's venue rejects (an error answer or an exception)
\* is sent once and leaves the mapping as it is; the destination is never sent
\* more buys for a contract than buy transactions were received for it; and a
\* sell for a contract without an entry calls nothing and changes no entry.
C16_RejectedOpenStaysUnmapped ==
    /\ [][ ( /\ mapper_steps' = mapper_steps + 1
             /\ mapper_event'.action = "buy"
             /\ mapper_calls' # <<>>
             /\ ~LastReceived(mapper_event'.contract_id).accepted )
           => ( /\ Len(mapper_calls') = 1
                /\ contract_mapping' = contract_mapping ) ]_vars
    /\ [] ( \A s \in SourceContracts :
               Count(b_ops[s], "buy_contract")
                   <= Cardinality({ k \in DOMAIN received[s] :
                                        received[s][k].action = "buy" }) )
    /\ [][ ( /\ mapper_steps' = mapper_steps + 1
             /\ mapper_event'.action = "sell"
             /\ mapper_event'.contract_id \notin DOMAIN contract_mapping )
           => ( mapper_calls' = <<>> /\ contract_mapping' = contract_mapping ) ]_vars

\* The buy for A1 was rejected, and the sell that followed called nothing.
C16_Witness ==
    /\ Len(received["A1"]) = 2
    /\ received["A1"][1].action = "buy" /\ ~received["A1"][1].accepted
    /\ received["A1"][2].action = "sell"
    /\ b_ops["A1"] = << "buy_contract" >>
    /\ mapper_calls = <<>>
    /\ contract_mapping = <<>>

\* C17: a sell for a mapped contract makes one sell_contract call, for the
\* contract of user B the entry names and at the transaction's price; the
\* entry is deleted when the venue confirms and stays as it is otherwise.
C17_CloseOfMappedTrade ==
    [][ ( /\ mapper_steps' = mapper_steps + 1
          /\ mapper_event'.action = "sell"
          /\ mapper_event'.contract_id \in DOMAIN contract_mapping )
        => LET s == mapper_event'.contract_id
           IN  /\ mapper_calls' =
                     << [op |-> "sell_contract",
                         contract_id |-> contract_mapping[s],
                         price |-> mapper_event'.amount] >>
               /\ IF LastReceived(s).accepted
                  THEN /\ s \notin DOMAIN contract_mapping'
                       /\ \A t \in DOMAIN contract_mapping \ {s} :
                              /\ t \in DOMAIN contract_mapping'
                              /\ contract_mapping'[t] = contract_mapping[t]
                  ELSE contract_mapping' = contract_mapping ]_vars

\* A1 was bought as contract 1 and sold at 9; the entry is gone, while A2's
\* entry is still there.
C17_Witness ==
    /\ mapper_event = [action |-> "sell", contract_id |-> "A1", amount |-> 9]
    /\ mapper_calls = << [op |-> "sell_contract", contract_id |-> 1, price |-> 9] >>
    /\ DOMAIN contract_mapping = {"A2"}
    /\ ~b_contracts[1].open

(***************************************************************************)
(* DerivMT5CopyTradingBot (copy_trading_bot.py): the threads                *)
(*                                                                         *)
(* Every start_source_connection / start_destination_connection makes a    *)
(* WebSocketApp and a thread that runs _run_websocket on it.  The thread   *)
(* is at one of                                                            *)
(*   check     the test of the while loop (line 92)                        *)
(*   run       about to call ws.run_forever (line 94)                      *)
(*   open      inside run_forever, the session connected                   *)
(*   returned  run_forever has returned (line 99)                          *)
(*   done      the thread has ended                                        *)
(* run_forever returns when the connect fails, when the session drops and  *)
(* when the socket is closed; before it returns it calls on_close.         *)
(* stop() is the only writer of should_run and only clears it, so stop()   *)
(* has returned exactly when the flag is cleared.                          *)
(***************************************************************************)

\* The WebSocketApp objects a behaviour makes.
MaxSockets == 3

\* The close-callback threads of one role that wait to run.  One started
\* beyond this number is left out: a thread that is never scheduled.
MaxSpawned == 1

\* The connects and sessions the network lets fail in a behaviour.
MaxFailures == 4

\* self.connection_retries
connection_retries == 3

\* self.retry_delay, in seconds
retry_delay == 5

\* self.reconnect_delay, in seconds
reconnect_delay == 5

\* How many exceptions one loop is followed through.
MaxRaises == 5

\* stop() has returned.
Stopped == ~should_run

\* ws and ws.sock and ws.sock.connected
Connected(w) == w # 0 /\ sockets[w].pc = "open"

\* A new WebSocketApp for role r with the thread of _run_websocket, retries = 0
\* (lines 65-74, 78-87, 91).
NewSocket(r) ==
    [role |-> r, pc |-> "check", retries |-> 0, delay |-> 0, raised |-> 0]

\* ws.close() of lines 168-171 on the sockets that self.source_ws and
\* self.destination_ws name: a connected one is closed and its run_forever
\* returns; closing one that is not connected does nothing.
CloseCurrent(socks) ==
    [w \in DOMAIN socks |->
        IF w \in {current_ws[r] : r \in Roles} /\ socks[w].pc = "open"
        THEN [socks[w] EXCEPT !.pc = "returned"]
        ELSE socks[w]]

\* ws.send on a session of role r.
Send(r) ==
    sent_after_stop' = IF Stopped THEN sent_after_stop \cup {r} ELSE sent_after_stop

\* on_source_close / on_destination_close (lines 152-162), called by
\* run_forever as it returns.
OnClose(r) ==
    spawned' = IF should_run /\ spawned[r] < MaxSpawned
               THEN [spawned EXCEPT ![r] = @ + 1]
               ELSE spawned

\* What a step of the bot leaves alone.
BotFrame ==
    /\ program = "copy_trading_bot"
    /\ UNCHANGED <<program, resolverVars, copierVars, mapperVars, sessionVars,
                   classifierVars>>

\* start (lines 51-58).
Start ==
    /\ BotFrame
    /\ watchdog.pc = "off"
    /\ sockets' = <<NewSocket("source"), NewSocket("destination")>>
    /\ current_ws' = [r \in Roles |-> IF r = "source" THEN 1 ELSE 2]
    /\ pinger' = [r \in Roles |-> "loop"]
    /\ watchdog' = [watchdog EXCEPT !.pc = "check"]
    /\ UNCHANGED <<should_run, spawned, fatal, sent_after_stop, answers, failures>>

\* The handle keep_alive_ping was given in start (lines 56-57).
PingerSocket(r) == IF r = "source" THEN 1 ELSE 2

\* _run_websocket, line 92.
LoopCheck(w) ==
    /\ BotFrame
    /\ sockets[w].pc = "check"
    /\ sockets' = [sockets EXCEPT ![w].pc = IF should_run THEN "run" ELSE "done",
                                  ![w].retries = IF should_run THEN @ ELSE 0,
                                  ![w].delay = IF should_run THEN @ ELSE 0,
                                  ![w].raised = IF should_run THEN @ ELSE 0]
    /\ UNCHANGED <<should_run, current_ws, spawned, watchdog, pinger, fatal,
                   sent_after_stop, answers, failures>>

\* A connect by socket w is a reconnect unless it is the first connect of one
\* of the two sockets that start() made.
IsReconnect(w) == w > 2 \/ sockets[w].retries > 0

\* run_forever connects; on_source_open / on_destination_open send the
\* authorize request (lines 142-150, 174-179).
LoopConnect(w) ==
    /\ BotFrame
    /\ sockets[w].pc = "run"
    /\ sockets' = [sockets EXCEPT ![w].pc = "open", ![w].raised = 0]
    /\ answers' = [answers EXCEPT ![sockets[w].role] =
                                      IF IsReconnect(w) THEN @ + 1 ELSE @]
    /\ Send(sockets[w].role)
    /\ UNCHANGED <<should_run, current_ws, spawned, watchdog, pinger, fatal, failures>>

\* run_forever cannot connect, calls on_close and returns.
LoopConnectFails(w) ==
    /\ BotFrame
    /\ sockets[w].pc = "run"
    /\ failures < MaxFailures
    /\ sockets' = [sockets EXCEPT ![w].pc = "returned"]
    /\ answers' = [answers EXCEPT ![sockets[w].role] = 0]
    /\ failures' = failures + 1
    /\ OnClose(sockets[w].role)
    /\ UNCHANGED <<should_run, current_ws, watchdog, pinger, fatal, sent_after_stop>>

\* The session drops; run_forever calls on_close and returns.
SessionDrops(w) ==
    /\ BotFrame
    /\ sockets[w].pc = "open"
    /\ failures < MaxFailures
    /\ sockets' = [sockets EXCEPT ![w].pc = "returned"]
    /\ answers' = [answers EXCEPT ![sockets[w].role] = 0]
    /\ failures' = failures + 1
    /\ OnClose(sockets[w].role)
    /\ UNCHANGED <<should_run, current_ws, watchdog, pinger, fatal, sent_after_stop>>

\* run_forever raises, at the connect or in a session (lines 108-113): the
\* loop logs, sleeps reconnect_delay and goes back to line 92 with retries as
\* it was.
LoopRaises(w) ==
    /\ BotFrame
    /\ sockets[w].pc \in {"run", "open"}
    /\ sockets[w].raised < MaxRaises
    /\ sockets' = [sockets EXCEPT ![w].pc = "check",
                                  ![w].delay = reconnect_delay,
                                  ![w].raised = IF sockets[w].pc = "open" THEN 1
                                                ELSE IF @ = 0 THEN 0
                                                ELSE @ + 1]
    /\ answers' = [answers EXCEPT ![sockets[w].role] = 0]
    /\ UNCHANGED <<should_run, current_ws, spawned, watchdog, pinger, fatal,
                   sent_after_stop, failures>>

\* Whether line 101 lets the loop go on at this count of retries.
MayRetry(retries) == retries <= connection_retries

\* The seconds line 103 sleeps.
RetryDelay(retries) == retry_delay * retries

\* _run_websocket, lines 99-107, after run_forever has returned.  With the flag
\* cleared the loop goes back to line 92 and ends there, the flag never being
\* set again.  With it set the loop counts the retry and either sleeps and goes
\* back to line 92 or calls stop() (lines 164-172) and ends.
LoopReturned(w) ==
    /\ BotFrame
    /\ sockets[w].pc = "returned"
    /\ IF ~should_run
       THEN /\ sockets' = [sockets EXCEPT ![w].pc = "done", ![w].retries = 0,
                                         ![w].delay = 0, ![w].raised = 0]
            /\ UNCHANGED <<should_run, fatal>>
       ELSE IF MayRetry(sockets[w].retries + 1)
       THEN /\ sockets' = [sockets EXCEPT ![w].pc = "check", ![w].retries = @ + 1,
                                         ![w].delay = RetryDelay(sockets[w].retries + 1)]
            /\ UNCHANGED <<should_run, fatal>>
       ELSE /\ sockets' = [CloseCurrent(sockets) EXCEPT ![w].pc = "done",
                                                        ![w].retries = 0,
                                                        ![w].delay = 0,
                                                        ![w].raised = 0]
            /\ should_run' = FALSE
            /\ fatal' = TRUE
    /\ UNCHANGED <<current_ws, spawned, watchdog, pinger, sent_after_stop, answers,
                   failures>>

\* A thread started by on_source_close / on_destination_close runs
\* start_source_connection / start_destination_connection (lines 63-87).
CloseCallbackThread(r) ==
    /\ BotFrame
    /\ spawned[r] > 0
    /\ Len(sockets) < MaxSockets
    /\ spawned' = [spawned EXCEPT ![r] = @ - 1]
    /\ sockets' = Append(sockets, NewSocket(r))
    /\ current_ws' = [current_ws EXCEPT ![r] = Len(sockets) + 1]
    /\ UNCHANGED <<should_run, watchdog, pinger, fatal, sent_after_stop, answers,
                   failures>>

\* check_connections, lines 33-36.
WatchdogCheck ==
    /\ BotFrame
    /\ watchdog.pc = "check"
    /\ watchdog' = IF should_run
                   THEN [pc |-> "act",
                         source_connected |-> Connected(current_ws["source"]),
                         dest_connected |-> Connected(current_ws["destination"])]
                   ELSE [pc |-> "done", source_connected |-> FALSE,
                         dest_connected |-> FALSE]
    /\ UNCHANGED <<should_run, current_ws, sockets, spawned, pinger, fatal,
                   sent_after_stop, answers, failures>>

\* The roles check_connections starts a connection for, given what it saw
\* (lines 38-44).
WatchdogStarts(source_connected, dest_connected) ==
    (IF source_connected THEN <<>> ELSE <<"source">>)
    \o (IF dest_connected THEN <<>> ELSE <<"destination">>)

\* check_connections, lines 38-46.  A cycle that would make more than
\* MaxSockets objects is modelled as starting none.
WatchdogAct ==
    /\ BotFrame
    /\ watchdog.pc = "act"
    /\ LET wanted == WatchdogStarts(watchdog.source_connected, watchdog.dest_connected)
           new == IF Len(sockets) + Len(wanted) <= MaxSockets THEN wanted ELSE <<>>
       IN  /\ sockets' = sockets \o [k \in DOMAIN new |-> NewSocket(new[k])]
           /\ current_ws' = [r \in Roles |->
                  IF \E k \in DOMAIN new : new[k] = r
                  THEN Len(sockets) + (CHOOSE k \in DOMAIN new : new[k] = r)
                  ELSE current_ws[r]]
    /\ watchdog' = [pc |-> "check", source_connected |-> FALSE,
                    dest_connected |-> FALSE]
    /\ UNCHANGED <<should_run, spawned, pinger, fatal, sent_after_stop, answers,
                   failures>>

\* One turn of keep_alive_ping (lines 117-123): with the flag cleared the
\* thread ends; else it pings its session if that is connected, and sleeps.
keep_alive_ping(r) ==
    /\ BotFrame
    /\ pinger[r] = "loop"
    /\ pinger' = [pinger EXCEPT ![r] = IF should_run THEN "loop" ELSE "done"]
    /\ IF should_run /\ Connected(PingerSocket(r)) THEN Send(r)
       ELSE UNCHANGED sent_after_stop
    /\ UNCHANGED <<should_run, current_ws, sockets, spawned, watchdog, fatal, answers,
                   failures>>

\* on_ping (lines 132-136): the peer's ping arrives on an open session and is
\* answered with a pong.
on_ping(w) ==
    /\ BotFrame
    /\ sockets[w].pc = "open"
    /\ Send(sockets[w].role)
    /\ UNCHANGED <<should_run, current_ws, sockets, spawned, watchdog, pinger, fatal,
                   answers, failures>>

\* stop (lines 164-172), called by main (lines 461-466).
stop ==
    /\ BotFrame
    /\ watchdog.pc # "off"
    /\ should_run' = FALSE
    /\ sockets' = CloseCurrent(sockets)
    /\ UNCHANGED <<current_ws, spawned, watchdog, pinger, fatal, sent_after_stop,
                   answers, failures>>

InitBot ==
    /\ program = "copy_trading_bot"
    /\ ResolverIdle
    /\ CopierIdle
    /\ MapperConstructed
    /\ BotConstructed
    /\ SessionIdle
    /\ ClassifierIdle

NextBot ==
    \/ Start
    \/ \E w \in DOMAIN sockets : LoopCheck(w)
    \/ \E w \in DOMAIN sockets : LoopConnect(w)
    \/ \E w \in DOMAIN sockets : LoopConnectFails(w)
    \/ \E w \in DOMAIN sockets : SessionDrops(w)
    \/ \E w \in DOMAIN sockets : LoopReturned(w)
    \/ \E r \in Roles : CloseCallbackThread(r)
    \/ WatchdogCheck
    \/ WatchdogAct
    \/ \E r \in Roles : keep_alive_ping(r)
    \/ \E w \in DOMAIN sockets : on_ping(w)
    \/ stop

SpecBot == InitBot /\ [][NextBot]_vars

\* The same threads on a network that sends no ping and whose failures all
\* raise out of run_forever instead of returning from it.
NextBotRaises ==
    \/ Start
    \/ \E w \in DOMAIN sockets : LoopCheck(w)
    \/ \E w \in DOMAIN sockets : LoopConnect(w)
    \/ \E w \in DOMAIN sockets : LoopRaises(w)
    \/ WatchdogCheck
    \/ WatchdogAct
    \/ \E r \in Roles : keep_alive_ping(r)
    \/ stop

SpecBotRaises == InitBot /\ [][NextBotRaises]_vars

\* A step of the thread of _run_websocket on socket w: the thread is scheduled,
\* and a connect that has begun ends, one way or the other.
LoopStep(w) ==
    /\ w \in DOMAIN sockets
    /\ LoopCheck(w) \/ LoopConnect(w) \/ LoopConnectFails(w) \/ LoopReturned(w)

\* Every thread that can take a step is scheduled; the network owes nothing:
\* an open session may stay open for ever.
BotFairness ==
    /\ \A w \in 1..MaxSockets : WF_vars(LoopStep(w))
    /\ \A r \in Roles : WF_vars(keep_alive_ping(r))
    /\ \A r \in Roles : WF_vars(CloseCallbackThread(r))
    /\ WF_vars(WatchdogCheck)
    /\ WF_vars(WatchdogAct)

SpecBotFair == InitBot /\ [][NextBot]_vars /\ BotFairness

(***************************************************************************)
(* The claims about the bot's connections                                   *)
(***************************************************************************)

\* C5: once a receive loop has run out of its retry budget and called stop(),
\* no session of either role is open and no message is sent on any session
\* from then on.
C5_FatalStopHaltsAll ==
    fatal => /\ \A w \in DOMAIN sockets : sockets[w].pc # "open"
             /\ sent_after_stop = {}

\* C6: for one loss of a role's connection at most one reconnect opens a new
\* session for the role, whoever starts it: the watchdog, the close callback
\* or the receive loop's retry.
C6_OneReconnectPerLoss == \A r \in Roles : answers[r] <= 1

\* Every receive loop, both keepalive loops and the watchdog loop have ended.
AllExited ==
    /\ \A w \in DOMAIN sockets : sockets[w].pc = "done"
    /\ \A r \in Roles : pinger[r] = "done"
    /\ watchdog.pc = "done"

\* C7: after stop() has cleared the run flag, every receive loop, keepalive
\* loop and the watchdog loop eventually ends.
C7_StopEndsEveryLoop == Stopped ~> AllExited

\* C14: a connect that succeeds sets the loop's retry counter to zero: no
\* session is open on a socket whose counter is above zero, so that a failure
\* after a successful reconnect counts as the first.
C14_ConnectResetsRetries ==
    \A w \in DOMAIN sockets : sockets[w].pc = "open" => sockets[w].retries = 0

\* C15: a loop that goes back to connect for the k-th time has slept
\* retry_delay x k seconds (5, 10, 15 for k = 1, 2, 3), and no reconnect calls
\* run_forever once stop() has cleared the run flag.
C15_LinearDelayNoReconnectAfterStop ==
    /\ [] ( \A w \in DOMAIN sockets :
               ( sockets[w].pc \in {"check", "run"} /\ sockets[w].retries > 0 )
                   => /\ sockets[w].delay = retry_delay * sockets[w].retries
                      /\ sockets[w].retries \in 1..3
                      /\ sockets[w].delay =
                             <<5, 10, 15>>[sockets[w].retries] )
    /\ [][ \A w \in DOMAIN sockets :
               ( /\ sockets[w].pc = "run"
                 /\ sockets'[w].pc \in {"open", "returned"}
                 /\ IsReconnect(w) )
                   => should_run ]_vars

\* The sockets of a role whose receive loop has not ended.
LiveLoops(r) == {w \in DOMAIN sockets : sockets[w].role = r /\ sockets[w].pc # "done"}

\* The sockets of a role whose session is open.
LiveSessions(r) == {w \in DOMAIN sockets : sockets[w].role = r /\ sockets[w].pc = "open"}

\* C22: each role has at most one receive loop that has not ended and at most
\* one open session, at startup and under any loss and recovery.
C22_OneLoopOneSessionPerRole ==
    \A r \in Roles : /\ Cardinality(LiveLoops(r)) <= 1
                     /\ Cardinality(LiveSessions(r)) <= 1

\* The threads that are about to assign a role's session handle: a thread
\* started by the close callback and the watchdog that saw the role
\* disconnected.  No lock is taken by either.
HandleWriters(r) ==
    (IF spawned[r] > 0 THEN {"close callback"} ELSE {})
    \cup (IF /\ watchdog.pc = "act"
              /\ \E k \in DOMAIN WatchdogStarts(watchdog.source_connected,
                                                 watchdog.dest_connected) :
                     WatchdogStarts(watchdog.source_connected,
                                    watchdog.dest_connected)[k] = r
           THEN {"watchdog"} ELSE {})

\* C23: a role's session handle has a single writer at any time: never are
\* two threads at once about to assign it.
C23_SingleWriterOfHandle ==
    \A r \in Roles : Cardinality(HandleWriters(r)) <= 1

\* C25: while shutdown has not been requested the keepalive thread of a role
\* pings the role's current session: when the current session is open it is
\* the one the thread holds.
C25_PingsFollowCurrentSession ==
    \A r \in Roles :
        ( should_run /\ pinger[r] = "loop" /\ Connected(current_ws[r]) )
            => PingerSocket(r) = current_ws[r]

\* C26: once stop() has returned no step opens a session and none sends a
\* message on any session.
C26_NothingAfterStop ==
    [][ Stopped =>
          /\ \A w \in DOMAIN sockets :
                 sockets'[w].pc = "open" => sockets[w].pc = "open"
          /\ sent_after_stop' = {} ]_vars

\* The connection attempts a loop has made since an exception ended its last
\* session, all of them ended by an exception too.
AttemptsSinceSession(w) ==
    IF sockets[w].raised = 0 THEN 0 ELSE sockets[w].raised - 1

\* C27: while stop() has not been invoked no loop has made more than
\* connection_retries (3) connection attempts since its last session ended,
\* exceptions out of run_forever included.
C27_AttemptsWithinBudget ==
    should_run =>
        \A w \in DOMAIN sockets : AttemptsSinceSession(w) <= connection_retries

(***************************************************************************)
(* DerivMT5CopyTradingBot (copy_trading_bot.py): the messages               *)
(*                                                                         *)
(* The callbacks of the sessions that are connected: on_source_open,       *)
(* on_destination_open, on_source_message, on_destination_message, on_ping *)
(* and on_pong.  run_forever calls them one at a time on the thread of its *)
(* socket.  The venue answers the requests it is sent, once each, and      *)
(* sends transactions on a session that has subscribed; a session is at    *)
(*   connected     connected, on_open not yet called                       *)
(*   authorizing   the authorize request sent, not yet answered            *)
(*   unauthorized  the authorize request answered with an error            *)
(*   listing       the mt5_login_list request sent, not yet answered       *)
(*   unresolved    select_mt5_account returned None                        *)
(*   resolved      select_mt5_account returned an account                  *)
(* The sessions are those of a start() whose sockets have all connected:   *)
(* one for each role, or a second one for a role, started by the watchdog  *)
(* while the first was still connecting.                                   *)
(***************************************************************************)

\* The orders sent on one session that the venue has not yet answered.
MaxPending == 1

\* The events of the source's transaction stream, all of one contract.
MaxStream == 2

\* source_account_number / destination_account_number as main() passes them.
ConfiguredNumbers == { None, <<"9","0","0">>, <<"5","5">> }

\* The mt5_login_list answers of the venue.
VenueAccountLists ==
    { <<>>,
      << [login |-> <<"M","T","D","1","0","0">>,
          rights |-> [enabled |-> TRUE, trade_disabled |-> TRUE]] >>,
      << [login |-> <<"M","T","R","9","0","0">>,
          rights |-> [enabled |-> TRUE, trade_disabled |-> FALSE]],
         [login |-> <<"M","T","D","1","0","0">>,
          rights |-> [enabled |-> TRUE, trade_disabled |-> TRUE]] >> }

\* The roles of the sockets that are connected, in the order they were made.
SessionLayouts ==
    { <<"source", "destination">>,
      <<"source", "destination", "destination">>,
      <<"source", "destination", "source">> }

\* self.source_token, self.destination_token
TokenOf(r) == IF r = "source" THEN "source_token" ELSE "destination_token"

\* A message sent with ws.send on socket w.
Message(w, kind, token, login) ==
    [to |-> w, kind |-> kind, token |-> token, login |-> login]

\* authorize_account (lines 174-179).
authorize_account(w, token) == << Message(w, "authorize", token, None) >>

\* get_mt5_accounts (lines 181-187).
get_mt5_accounts(w) == << Message(w, "mt5_login_list", "", None) >>

\* subscribe_to_mt5_trades (lines 243-279): nothing without an account
\* number, else the same subscription request twice.
subscribe_to_mt5_trades(w, number) ==
    IF number = None THEN <<>>
    ELSE << Message(w, "subscribe", "", number), Message(w, "subscribe", "", number) >>

\* A slip in line 136: the pong is sent on the socket the bot holds for the
\* role, not on the one the ping came in on.
PongOnCurrent(w) == << Message(current_ws[sockets[w].role], "pong", "", None) >>

\* on_ping (lines 132-136) on a connected socket.
Pong(w) == << Message(w, "pong", "", None) >>

\* A slip in json.loads: whatever arrives is taken for structured data.
ParsesAnything(kind) == TRUE

\* Whether json.loads (lines 285, 345) returns and does not raise.
Parses(kind) == kind # "unparsable"

\* replicate_mt5_trade (lines 375-410) and replicate_mt5_order (lines
\* 412-443), which differ in the fields they copy: what is sent and how many
\* error records are written.  complete: the event has every field the request
\* reads with [...].
replicate_mt5_trade(complete) ==
    IF current_ws["destination"] = 0 THEN [sent |-> <<>>, errors |-> 1]
    ELSE IF mt5_account_number["destination"] = None
    THEN [sent |-> <<>>, errors |-> 1]
    ELSE IF ~complete THEN [sent |-> <<>>, errors |-> 2]
    ELSE [sent |-> << Message(current_ws["destination"], "mt5_new_order", "",
                              mt5_account_number["destination"]) >>,
          errors |-> 0]

\* The actions line 309 lets through.
ReplicatedActions == {"buy", "sell", "create", "update", "delete"}

\* What a step of a session leaves alone.
SessionFrame ==
    /\ program = "sessions"
    /\ UNCHANGED <<program, resolverVars, copierVars, mapperVars, botVars,
                   classifierVars, venue_accounts>>

\* What every callback records of its call.
Called(w, kind, detail, sent, errors) ==
    /\ session_event' = [on |-> w, kind |-> kind, detail |-> detail,
                         action |-> "none", complete |-> TRUE]
    /\ session_sent' = sent
    /\ session_errors' = errors

\* on_source_open / on_destination_open (lines 142-150).
SessionOpen(w) ==
    /\ SessionFrame
    /\ phase[w] = "connected"
    /\ phase' = [phase EXCEPT ![w] = "authorizing"]
    /\ Called(w, "open", "none", authorize_account(w, TokenOf(sockets[w].role)), 0)
    /\ UNCHANGED <<mt5_account_number, pending, stream_pos, applied>>

\* The answer to authorize arrives (lines 287-289, 347-349).  An error answer
\* has no "authorize" key and no other key the handler looks for.
AuthorizeReply(w, ok) ==
    /\ SessionFrame
    /\ phase[w] = "authorizing"
    /\ phase' = [phase EXCEPT ![w] = IF ok THEN "listing" ELSE "unauthorized"]
    /\ Called(w, "authorize", IF ok THEN "ok" ELSE "error",
              IF ok THEN get_mt5_accounts(w) ELSE <<>>, 0)
    /\ UNCHANGED <<mt5_account_number, pending, stream_pos, applied>>

\* The answer to mt5_login_list arrives (lines 290-302, 350-362).
\* select_mt5_account writes one error record when it returns None, and the
\* handler another.
LoginListReply(w) ==
    /\ SessionFrame
    /\ phase[w] = "listing"
    /\ LET r == sockets[w].role
           number == select_mt5_account(venue_accounts[r], mt5_account_number[r])
       IN  /\ mt5_account_number' = [mt5_account_number EXCEPT ![r] = number]
           /\ phase' = [phase EXCEPT ![w] = IF number = None THEN "unresolved"
                                            ELSE "resolved"]
           /\ Called(w, "mt5_login_list", IF number = None THEN "error" ELSE "ok",
                     IF r = "source" THEN subscribe_to_mt5_trades(w, number) ELSE <<>>,
                     IF number = None THEN 2 ELSE 0)
    /\ UNCHANGED <<pending, stream_pos, applied>>

\* The next transaction of the stream arrives on a source session that has
\* subscribed (lines 305-317).
TransactionMessage(w, action, contract_type, complete) ==
    /\ SessionFrame
    /\ sockets[w].role = "source"
    /\ phase[w] = "resolved"
    /\ stream_pos[w] < MaxStream
    /\ stream_pos' = [stream_pos EXCEPT ![w] = @ + 1]
    /\ LET dispatched == action \in ReplicatedActions
                         /\ contract_type \in {"position", "order"}
           out == IF dispatched THEN replicate_mt5_trade(complete)
                  ELSE [sent |-> <<>>, errors |-> 0]
           d == current_ws["destination"]
       IN  /\ out.sent # <<>> => pending[d] < MaxPending
           /\ pending' = IF out.sent # <<>> THEN [pending EXCEPT ![d] = @ + 1]
                         ELSE pending
           /\ session_event' = [on |-> w, kind |-> "transaction",
                                detail |-> contract_type, action |-> action,
                                complete |-> complete]
           /\ session_sent' = out.sent
           /\ session_errors' = out.errors
           /\ applied' = IF out.sent # <<>> /\ stream_pos[w] + 1 > applied
                         THEN stream_pos[w] + 1 ELSE applied
    /\ UNCHANGED <<mt5_account_number, phase>>

\* The answer to an mt5_new_order arrives on the destination session the order
\* was sent on (lines 364-368).
OrderReply(w, ok) ==
    /\ SessionFrame
    /\ pending[w] > 0
    /\ pending' = [pending EXCEPT ![w] = @ - 1]
    /\ Called(w, "mt5_new_order", IF ok THEN "ok" ELSE "error", <<>>,
              IF ok THEN 0 ELSE 1)
    /\ UNCHANGED <<mt5_account_number, phase, stream_pos, applied>>

\* A message arrives that json.loads cannot parse (lines 335-336, 370-371).
\* Were it parsed, no branch of the handler would take it.
UnparsableMessage(w) ==
    /\ SessionFrame
    /\ phase[w] # "connected"
    /\ Called(w, "unparsable", "none", <<>>, IF Parses("unparsable") THEN 0 ELSE 1)
    /\ UNCHANGED <<mt5_account_number, phase, pending, stream_pos, applied>>

\* A ping frame arrives on socket w: on_ping (lines 132-136).
PingFrame(w) ==
    /\ SessionFrame
    /\ Called(w, "ping", "none", Pong(w), 0)
    /\ UNCHANGED <<mt5_account_number, phase, pending, stream_pos, applied>>

\* A pong frame arrives on socket w: on_pong (lines 138-140).
PongFrame(w) ==
    /\ SessionFrame
    /\ Called(w, "pong", "none", <<>>, 0)
    /\ UNCHANGED <<mt5_account_number, phase, pending, stream_pos, applied>>

\* The state after start() (lines 51-58) once every socket has connected.
InitSession ==
    /\ program = "sessions"
    /\ ClassifierIdle
    /\ ResolverIdle
    /\ CopierIdle
    /\ MapperConstructed
    /\ \E layout \in SessionLayouts :
        /\ sockets = [w \in DOMAIN layout |-> [NewSocket(layout[w]) EXCEPT !.pc = "open"]]
        /\ current_ws = [r \in Roles |->
               CHOOSE w \in DOMAIN layout :
                   /\ layout[w] = r
                   /\ \A v \in DOMAIN layout : layout[v] = r => v <= w]
        /\ answers = [r \in Roles |->
               Cardinality({w \in DOMAIN layout : layout[w] = r /\ w > 2})]
        /\ phase = [w \in DOMAIN layout |-> "connected"]
        /\ pending = [w \in DOMAIN layout |-> 0]
        /\ stream_pos = [w \in DOMAIN layout |-> 0]
    /\ should_run = TRUE
    /\ spawned = [r \in Roles |-> 0]
    /\ watchdog = [pc |-> "check", source_connected |-> FALSE, dest_connected |-> FALSE]
    /\ pinger = [r \in Roles |-> "loop"]
    /\ fatal = FALSE
    /\ sent_after_stop = {}
    /\ failures = 0
    /\ mt5_account_number \in [Roles -> ConfiguredNumbers]
    /\ venue_accounts \in [Roles -> VenueAccountLists]
    /\ session_event = [on |-> 0, kind |-> "none", detail |-> "none",
                        action |-> "none", complete |-> TRUE]
    /\ session_sent = <<>>
    /\ session_errors = 0
    /\ applied = 0

NextSession ==
    \/ \E w \in DOMAIN sockets : SessionOpen(w)
    \/ \E w \in DOMAIN sockets, ok \in BOOLEAN : AuthorizeReply(w, ok)
    \/ \E w \in DOMAIN sockets : LoginListReply(w)
    \/ \E w \in DOMAIN sockets, action \in {"buy", "hold"},
          contract_type \in {"position", "order", "none"}, complete \in BOOLEAN :
           TransactionMessage(w, action, contract_type, complete)
    \/ \E w \in DOMAIN sockets, ok \in BOOLEAN : OrderReply(w, ok)
    \/ \E w \in DOMAIN sockets : UnparsableMessage(w)
    \/ \E w \in DOMAIN sockets : PingFrame(w)
    \/ \E w \in DOMAIN sockets : PongFrame(w)

SpecSession == InitSession /\ [][NextSession]_vars

(***************************************************************************)
(* Claims about the bot's messages                                          *)
(***************************************************************************)

\* The requests by which a side trades.
TradingKinds == {"mt5_login_list", "subscribe", "mt5_new_order"}

\* C12: a session whose account resolution failed is sent no subscription
\* request and no replicated order, and the handler that finds the resolution
\* failed closes no socket and does not clear the run flag.
C12_FailedSideDoesNotTrade ==
    [][ /\ \A k \in DOMAIN session_sent' :
              session_sent'[k].kind \in {"subscribe", "mt5_new_order"}
                  => phase'[session_sent'[k].to] # "unresolved"
        /\ ( session_event'.kind = "mt5_login_list" /\ session_event'.detail = "error" )
              => ( sockets' = sockets /\ should_run' = should_run ) ]_vars

\* C13: on_open sends one authorize request with the token of the socket's
\* role; an authorize answer that is an error clears the run flag; and no
\* account-list query, subscription or order is sent on a session whose
\* authorization failed.
C13_AuthorizeOrShutDown ==
    [][ /\ session_event'.kind = "open"
              => session_sent' = << Message(session_event'.on, "authorize",
                                            TokenOf(sockets[session_event'.on].role),
                                            None) >>
        /\ ( session_event'.kind = "authorize" /\ session_event'.detail = "error" )
              => ~should_run'
        /\ \A k \in DOMAIN session_sent' :
              session_sent'[k].kind \in TradingKinds
                  => phase'[session_sent'[k].to] # "unauthorized" ]_vars

\* C19: the handler of a message that cannot be parsed writes one error
\* record, sends nothing and changes neither the resolved accounts, the
\* sessions, the mapping nor the run flag; the answer the session was waiting
\* for can still be handled.
C19_UnparsableIsDropped ==
    /\ [][ session_event'.kind = "unparsable"
              => /\ session_errors' = 1
                 /\ session_sent' = <<>>
                 /\ UNCHANGED <<mt5_account_number, phase, pending, contract_mapping,
                                should_run, sockets, current_ws>> ]_vars
    /\ [] ( session_event.kind = "unparsable"
               => /\ phase[session_event.on] = "authorizing"
                        => ENABLED AuthorizeReply(session_event.on, TRUE)
                  /\ phase[session_event.on] = "listing"
                        => ENABLED LoginListReply(session_event.on) )

\* An unparsable message was dropped on a session that waits for its account
\* list.
C19_Witness ==
    /\ session_event.kind = "unparsable"
    /\ phase[session_event.on] = "listing"
    /\ session_errors = 1
    /\ session_sent = <<>>

\* C20: a ping is answered with one pong on the socket it came in on; the
\* handler of a pong sends nothing and changes no state of the bot.
C20_PingAnsweredPongIgnored ==
    [][ /\ session_event'.kind = "ping"
              => session_sent' = << Message(session_event'.on, "pong", "", None) >>
        /\ session_event'.kind = "pong"
              => /\ session_sent' = <<>>
                 /\ UNCHANGED <<mt5_account_number, phase, pending, botVars,
                                mapperVars>> ]_vars

\* A ping on the destination's first socket, which is no longer the one the
\* bot holds for the destination, was answered on that first socket.
C20_Witness ==
    /\ session_event.kind = "ping"
    /\ session_event.on = 2
    /\ current_ws["destination"] = 3
    /\ session_sent = << Message(2, "pong", "", None) >>

\* The sessions of a role whose resolution cycle has ended.
ResolvedBefore(r) ==
    {v \in DOMAIN sockets : sockets[v].role = r /\ phase[v] \in {"resolved", "unresolved"}}

\* C28: with the account list and the configuration as they were, a
\* resolution cycle of a role that has had one before selects what the earlier
\* cycle selected, also when the earlier cycle selected nothing.
C28_ReResolutionStable ==
    [][ \A w \in DOMAIN sockets :
          ( /\ phase[w] = "listing"
            /\ phase'[w] \in {"resolved", "unresolved"}
            /\ ResolvedBefore(sockets[w].role) # {} )
              => mt5_account_number'[sockets[w].role]
                     = mt5_account_number[sockets[w].role] ]_vars
\* The destination account has been resolved: a destination session has had
\* its account list answered with an account selected.
DestinationResolved ==
    \E v \in DOMAIN sockets : sockets[v].role = "destination" /\ phase[v] = "resolved"

\* C29: a transaction that carries all its fields causes exactly one
\* mt5_new_order, addressed to the resolved destination account, when its
\* action is buy, sell, create, update or delete and its contract type is
\* position or order, and no command otherwise.
C29_OneOrderToResolvedAccount ==
    [][ ( session_event'.kind = "transaction" /\ session_event'.complete )
          => IF /\ session_event'.action \in {"buy", "sell", "create", "update", "delete"}
                /\ session_event'.detail \in {"position", "order"}
             THEN /\ Len(session_sent') = 1
                  /\ session_sent'[1].kind = "mt5_new_order"
                  /\ DestinationResolved
                  /\ session_sent'[1].login = mt5_account_number["destination"]
             ELSE session_sent' = <<>> ]_vars
\* C21: the events of the source's stream reach the destination in the order
\* of the stream: an order sent for an event is never followed by an order
\* for an earlier event.
C21_StreamOrderKept ==
    [][ ( session_event'.kind = "transaction" /\ session_sent' # <<>> )
          => stream_pos'[session_event'.on] >= applied ]_vars

(***************************************************************************)
(* DerivMT5CopyTradingBot (copy_trading_bot.py): which branch of            *)
(* on_source_message / on_destination_message takes a message               *)
(***************************************************************************)

\* The messages the venue may send: every key absent, present with a falsy
\* value, or present with a truthy one.
Messages == [role : Roles, data : [Fields -> {"absent", "falsy", "truthy"}]]

\* key in data
Present(data, f) == data[f] # "absent"

\* data[key] or data.get(key), as a condition
Truthy(data, f) == data[f] = "truthy"

\* A slip in lines 288-291: the account list is looked for before the
\* authorization.
on_source_message_list_first(data) ==
    IF Present(data, "mt5_login_list") THEN "mt5_login_list"
    ELSE IF Present(data, "authorize") /\ Truthy(data, "authorize") THEN "authorize"
    ELSE IF Truthy(data, "transaction") THEN "transaction"
    ELSE IF Present(data, "mt5_get_positions") THEN "mt5_get_positions"
    ELSE IF Present(data, "mt5_get_orders") THEN "mt5_get_orders"
    ELSE "none"

\* The branch of on_source_message's if / elif chain that takes the message
\* (lines 288, 291, 305, 319, 327).
on_source_message(data) ==
    IF Present(data, "authorize") /\ Truthy(data, "authorize") THEN "authorize"
    ELSE IF Present(data, "mt5_login_list") THEN "mt5_login_list"
    ELSE IF Truthy(data, "transaction") THEN "transaction"
    ELSE IF Present(data, "mt5_get_positions") THEN "mt5_get_positions"
    ELSE IF Present(data, "mt5_get_orders") THEN "mt5_get_orders"
    ELSE "none"

\* The branch of on_destination_message's chain (lines 347, 350, 364).
on_destination_message(data) ==
    IF Present(data, "authorize") /\ Truthy(data, "authorize") THEN "authorize"
    ELSE IF Present(data, "mt5_login_list") THEN "mt5_login_list"
    ELSE IF Present(data, "mt5_new_order") THEN "mt5_new_order"
    ELSE "none"

\* The kinds of request the branch sends.  acts: the account resolution
\* selects an account, or the update is one that is replicated.
BranchSends(role, taken, data, acts) ==
    IF taken = "authorize" THEN <<"mt5_login_list">>
    ELSE IF taken = "mt5_login_list"
    THEN IF role = "source" /\ acts THEN <<"subscribe", "subscribe">> ELSE <<>>
    ELSE IF taken = "transaction"
    THEN IF acts THEN <<"mt5_new_order">> ELSE <<>>
    ELSE IF taken \in {"mt5_get_positions", "mt5_get_orders"}
    THEN IF Truthy(data, taken) /\ acts THEN <<"mt5_new_order">> ELSE <<>>
    ELSE <<>>

\* The attributes of the bot the branch assigns (lines 294, 354).
BranchWrites(role, taken) ==
    IF taken # "mt5_login_list" THEN {}
    ELSE IF role = "source" THEN {"source_account_number"}
    ELSE {"destination_account_number"}

\* The handler of the message's role is called with it.
Classify(acts) ==
    /\ program = "classify"
    /\ branch = "unclassified"
    /\ LET taken == IF message.role = "source" THEN on_source_message(message.data)
                    ELSE on_destination_message(message.data)
       IN  /\ branch' = taken
           /\ handler_sent' = BranchSends(message.role, taken, message.data, acts)
           /\ handler_writes' = BranchWrites(message.role, taken)
    /\ UNCHANGED <<program, resolverVars, copierVars, mapperVars, botVars,
                   sessionVars, message>>

InitClassifier ==
    /\ program = "classify"
    /\ ResolverIdle
    /\ CopierIdle
    /\ MapperConstructed
    /\ BotConstructed
    /\ SessionIdle
    /\ message \in Messages
    /\ branch = "unclassified"
    /\ handler_sent = <<>>
    /\ handler_writes = {}

NextClassifier == \E acts \in BOOLEAN : Classify(acts)

SpecClassifier == InitClassifier /\ [][NextClassifier]_vars

(***************************************************************************)
(* Claims about the classification of messages                             *)
(***************************************************************************)

\* The keys in the order of the categories: authorization confirmation,
\* account list, update (transaction, positions, orders), trade confirmation.
PriorityOrder ==
    <<"authorize", "mt5_login_list", "transaction", "mt5_get_positions",
      "mt5_get_orders", "mt5_new_order">>

\* The keys the handler of a role looks for.
Examined(role) ==
    IF role = "source"
    THEN {"authorize", "mt5_login_list", "transaction", "mt5_get_positions",
          "mt5_get_orders"}
    ELSE {"authorize", "mt5_login_list", "mt5_new_order"}

\* Whether the message belongs to the category of key f.
Matches(data, f) ==
    IF f \in {"authorize", "transaction"} THEN data[f] = "truthy"
    ELSE data[f] # "absent"

\* The positions in PriorityOrder of the categories the message belongs to,
\* among those its handler looks for.
Matching ==
    { k \in DOMAIN PriorityOrder :
        /\ PriorityOrder[k] \in Examined(message.role)
        /\ Matches(message.data, PriorityOrder[k]) }

\* C24: a message is handled by the first category in priority order that it
\* matches, and by that one only; a message that matches none is taken by no
\* branch: nothing is sent, nothing assigned and the run flag stays set.
C24_FirstMatchingCategoryOnly ==
    branch # "unclassified" =>
        IF Matching = {}
        THEN /\ branch = "none"
             /\ handler_sent = <<>>
             /\ handler_writes = {}
             /\ should_run
        ELSE /\ \E k \in Matching :
                   /\ branch = PriorityOrder[k]
                   /\ \A j \in Matching : k <= j
             /\ \A k \in DOMAIN handler_sent :
                   handler_sent[k] \in
                       { BranchSends(message.role, branch, message.data, TRUE)[i] :
                           i \in DOMAIN BranchSends(message.role, branch,
                                                    message.data, TRUE) }

\* A source message that is an authorization confirmation, an account list
\* and a transaction at once was handled as the authorization confirmation.
C24_Witness ==
    /\ branch = "authorize"
    /\ message.role = "source"
    /\ message.data["authorize"] = "truthy"
    /\ message.data["mt5_login_list"] = "truthy"
    /\ message.data["transaction"] = "truthy"
    /\ handler_sent = <<"mt5_login_list">>

====
